---------------------------- MODULE Spec2Model ----------------------------
(***************************************************************************)
(* Hohmann transfer simulation: Hohmann_Rocket_Sim.py ("Sim") and          *)
(* Hohmann_rocket_angle_updated.py ("Upd").                                *)
(*                                                                         *)
(* The scripts compute in IEEE doubles; the model computes in fixed point. *)
(*   lengths   : units of 10^7 m                                           *)
(*   times     : seconds                                                   *)
(*   angles    : micro-radians                                             *)
(*   sin, cos  : units of 10^-6                                            *)
(*   bearings  : milli-degrees                                             *)
(* Every product that would leave the 32-bit range goes through MulDiv.    *)
(* Arrays are functions over 0..n-1, indexed as in the source.             *)
(***************************************************************************)
EXTENDS Integers, Sequences, FiniteSets, TLC

----------------------------------------------------------------------------
(* Fixed-point arithmetic standing for the float operators of the source.  *)

Micro == 10 ^ 6

Abs(x) == IF x < 0 THEN -x ELSE x

Sgn(x) == IF x < 0 THEN -1 ELSE 1

(* <<q, r>> with a*b = q*c + r and 0 <= r < c, for a, b >= 0 and           *)
(* 0 < c <= 143165576, taking b three bits at a time: no intermediate      *)
(* value exceeds 15*c or q.                                                *)
RECURSIVE MulDivQR(_, _, _)
MulDivQR(a, b, c) ==
    IF b = 0 THEN <<0, 0>>
    ELSE LET h == MulDivQR(a, b \div 8, c)
             d == b % 8
             e == 8 * h[2] + d * (a % c)
         IN  <<8 * h[1] + d * (a \div c) + e \div c, e % c>>

(* a*b/c on signed a, b (c > 0), truncated toward zero.                    *)
MulDiv(a, b, c) == Sgn(a) * Sgn(b) * MulDivQR(Abs(a), Abs(b), c)[1]

(* floor(sqrt(v)), bit by bit from 2^15 down.                              *)
RECURSIVE ISqrtFrom(_, _, _)
ISqrtFrom(v, s, bit) ==
    IF bit = 0 THEN s
    ELSE IF s + bit <= 46340 /\ (s + bit) * (s + bit) <= v
         THEN ISqrtFrom(v, s + bit, bit \div 2)
         ELSE ISqrtFrom(v, s, bit \div 2)

ISqrt(v) == ISqrtFrom(v, 0, 32768)

(* np.sqrt of a value given in units of 10^6, result in units of 1:        *)
(* sqrt(v * 10^6) = 1000 * sqrt(v), with the first-order fraction.         *)
SqrtMega(v) ==
    LET s == ISqrt(v)
    IN  IF s = 0 THEN 0 ELSE 1000 * s + (1000 * (v - s * s)) \div (2 * s)

PiMicro == 3141593

TwoPiMicro == 6283185

HalfPiMicro == 1570796

(* Nested Taylor polynomial 1 - x2/(m(m+1)) * (1 - x2/((m+2)(m+3)) * ...)  *)
(* with x2 = x^2 in units of 10^-6; m = 2 gives sin(x)/x, m = 1 gives cos. *)
RECURSIVE Nest(_, _, _)
Nest(x2, m, last) ==
    IF m > last THEN Micro
    ELSE Micro - MulDiv(Nest(x2, m + 2, last), x2, Micro) \div (m * (m + 1))

SinQ(x) == MulDiv(x, Nest(MulDiv(x, x, Micro), 2, 14), Micro)

CosQ(x) == Nest(MulDiv(x, x, Micro), 1, 13)

(* np.sin, np.cos of an angle >= 0 in micro-radians, in units of 10^-6.    *)
Sin(theta) ==
    LET y == theta % TwoPiMicro
    IN  IF y <= HalfPiMicro THEN SinQ(y)
        ELSE IF y <= PiMicro THEN SinQ(PiMicro - y)
        ELSE IF y <= PiMicro + HalfPiMicro THEN -SinQ(y - PiMicro)
        ELSE -SinQ(TwoPiMicro - y)

Cos(theta) ==
    LET y == theta % TwoPiMicro
    IN  IF y <= HalfPiMicro THEN CosQ(y)
        ELSE IF y <= PiMicro THEN -CosQ(PiMicro - y)
        ELSE IF y <= PiMicro + HalfPiMicro THEN -CosQ(y - PiMicro)
        ELSE CosQ(TwoPiMicro - y)

(* arctan(2^-k) in micro-radians, k = 0..19.                               *)
AtanTable ==
    <<785398, 463648, 244979, 124355, 62419, 31240, 15624, 7812, 3906, 1953,
      977, 488, 244, 122, 61, 31, 15, 8, 4, 2>>

RECURSIVE Vectoring(_, _, _, _)
Vectoring(x, y, z, k) ==
    IF k >= Len(AtanTable) \/ y = 0 THEN z
    ELSE IF y > 0
         THEN Vectoring(x + y \div (2 ^ k), y - x \div (2 ^ k),
                        z + AtanTable[k + 1], k + 1)
         ELSE Vectoring(x - y \div (2 ^ k), y + x \div (2 ^ k),
                        z - AtanTable[k + 1], k + 1)

(* np.arctan2(y, x) in micro-radians, in (-pi, pi]; arctan2(0, 0) = 0.     *)
(* |x|, |y| < 2^16.                                                        *)
ArcTan2(y, x) ==
    IF x = 0 /\ y = 0 THEN 0
    ELSE IF x < 0 /\ y = 0 THEN PiMicro
    ELSE IF x >= 0 THEN Vectoring(x * 16384, y * 16384, 0, 0)
    ELSE IF y > 0 THEN Vectoring(y * 16384, -x * 16384, HalfPiMicro, 0)
    ELSE Vectoring(-y * 16384, x * 16384, -HalfPiMicro, 0)

(* radians -> degrees, the source's "* (180 / np.pi)": micro-radians to    *)
(* milli-degrees.                                                          *)
ToDegrees(theta) == MulDiv(theta, 180000, PiMicro)

(* np.deg2rad of a value given in hundredths of a degree: micro-radians.   *)
deg2rad(centi) == MulDiv(centi, PiMicro, 18000)

----------------------------------------------------------------------------
(* Celestial constants and derived periods (Sim 19-30, Upd 20-31).         *)

\* G = 6.67430e-11 m^3 kg^-1 s^-2, in units of 10^-15
G == 66743

\* M_sun = 1.989e30 kg, in units of 10^27
M_sun == 1989

\* r_earth_orbit = 1.496e11 m
r_earth_orbit == 14960

\* r_mars_orbit = 2.279e11 m
r_mars_orbit == 22790

\* the sample count given to np.linspace
N == 1000

\* the phase literal 44.75, in hundredths
PhaseAngle == 4475

(* np.sqrt(r**3 / (G * M_sun)) in seconds: with r in 10^7 m and G*M_sun in *)
(* 10^12 m^3/s^2 the quotient is r^3 * 1000 / (G*M_sun) in 10^6 s^2.       *)
SqrtR3OverGM(r) == SqrtMega(MulDiv(r * r, r * 1000, G * M_sun))

(* 2 * np.pi * np.sqrt(r**3 / (G * M_sun)), seconds.                       *)
Period(r) == MulDiv(TwoPiMicro, SqrtR3OverGM(r), Micro)

T_earth == Period(r_earth_orbit)

T_mars == Period(r_mars_orbit)

a_transfer == (r_earth_orbit + r_mars_orbit) \div 2

(* np.linspace(0, stop, num)[i]                                            *)
linspace(stop, num, i) == MulDiv(stop, i, num - 1)

(* (2 * np.pi / T_earth) * t                                               *)
theta_earth(ti) == MulDiv(TwoPiMicro, ti, T_earth)

(* Fault variant of theta_mars: the phase term left out.                   *)
theta_mars_nophase(sc, ti) == MulDiv(TwoPiMicro, ti, T_mars)

(* Sim: (2 * np.pi / T_mars) * t + 44.75                                   *)
(* Upd: (2 * np.pi / T_mars) * t + np.deg2rad(44.75)                       *)
theta_mars(sc, ti) ==
    IF sc = "Sim"
    THEN MulDiv(TwoPiMicro, ti, T_mars) + PhaseAngle * 10000
    ELSE MulDiv(TwoPiMicro, ti, T_mars) + deg2rad(PhaseAngle)

(* np.sqrt((G * M_sun) / a_transfer**3) * t, as t / sqrt(a^3 / (G M))      *)
theta_transfer(ti) == MulDiv(ti, Micro, SqrtR3OverGM(a_transfer))

(* Fault variant of transfer_x: the arc not shifted to start at the origin. *)
transfer_x_noshift(sc, a, theta) == MulDiv(a, Cos(theta), Micro)

(* Sim: a_transfer * (np.cos(theta_transfer) - 1)                          *)
(* Upd: a_transfer * np.cos(theta_transfer) - a_transfer                   *)
transfer_x(sc, a, theta) ==
    IF sc = "Sim"
    THEN MulDiv(a, Cos(theta) - Micro, Micro)
    ELSE MulDiv(a, Cos(theta), Micro) - a

(* a_transfer * np.sin(theta_transfer)                                     *)
transfer_y(a, theta) == MulDiv(a, Sin(theta), Micro)

(* r * np.cos(theta), r * np.sin(theta)                                    *)
circle_x(r, theta) == MulDiv(r, Cos(theta), Micro)

circle_y(r, theta) == MulDiv(r, Sin(theta), Micro)

----------------------------------------------------------------------------
(* numpy array semantics used by the scripts.                              *)

len(a) == Cardinality(DOMAIN a)

(* Shapes (m,) and (n,) broadcast when equal or when one of them is 1.     *)
Broadcastable(m, n) == m = n \/ m = 1 \/ n = 1

BroadcastLen(m, n) == IF m = 1 THEN n ELSE m

(* Element i of a one-dimensional array broadcast to a longer shape.       *)
At(a, i) == IF len(a) = 1 THEN a[0] ELSE a[i]

(* np.argmin of a non-empty array: the running minimum is replaced only by *)
(* a strictly smaller value found to its right.  The scan is split in      *)
(* halves to keep the evaluation shallow; the left half keeps ties.        *)
RECURSIVE ArgMinScan(_, _, _)
ArgMinScan(d, lo, hi) ==
    IF lo = hi THEN lo
    ELSE LET mid == (lo + hi) \div 2
             l   == ArgMinScan(d, lo, mid)
             r   == ArgMinScan(d, mid + 1, hi)
         IN  IF d[r] < d[l] THEN r ELSE l

(* Fault variant of argmin: among equal minima the last one wins.          *)
argmin_last(d) ==
    CHOOSE i \in DOMAIN d :
        /\ \A j \in DOMAIN d : d[i] <= d[j]
        /\ \A j \in DOMAIN d : j > i => d[i] < d[j]

argmin(d) == ArgMinScan(d, 0, len(d) - 1)

(* An array as the point list a Line2D holds.                              *)
ToSeq(a) == [k \in 1..len(a) |-> a[k - 1]]

(* f'{angle:.2f}': milli-degrees rounded to hundredths, ties to even.      *)
Format2f(mdeg) ==
    LET q == Abs(mdeg) \div 10
        r == Abs(mdeg) % 10
    IN  Sgn(mdeg) * (IF r > 5 \/ (r = 5 /\ q % 2 = 1) THEN q + 1 ELSE q)

RECURSIVE Digits(_)
Digits(d) == IF d < 10 THEN 1 ELSE 1 + Digits(d \div 10)

(* f'{distance:.2e}' of a distance d >= 0 in units of 10^7 m: the three    *)
(* significant digits and the decimal exponent in metres.                  *)
Format2e(d) ==
    IF d = 0 THEN <<0, 0>>
    ELSE LET n == Digits(d)
         IN  IF n <= 3 THEN <<d * 10 ^ (3 - n), n + 6>>
             ELSE LET p == 10 ^ (n - 3)
                      q == d \div p
                      r == d % p
                      m == IF 2 * r > p \/ (2 * r = p /\ q % 2 = 1)
                           THEN q + 1 ELSE q
                  IN  IF m = 1000 THEN <<100, n + 7>> ELSE <<m, n + 6>>

----------------------------------------------------------------------------
(* Program state.                                                          *)

VARIABLES
    script,             \* "Sim" or "Upd": which of the two scripts runs
    pc,                 \* "main", "play", "post", "done", "error"
    err,                \* the exception that ended the run, "" if none
    t, x_earth, y_earth, x_mars, y_mars, x_transfer, y_transfer,
    distances_to_mars,
    intercept_idx,      \* -1 while the name is unbound
    rocket, earth, mars, line,      \* Line2D data: [x |-> Seq, y |-> Seq]
    angle_text, distance_text,      \* <<>> for '', else the formatted value
    started,            \* FuncAnimation's timer is running
    frame_seq,          \* next index the frame iterator yields
    last_call,          \* fn: the most recent callback ("none", "init",
                        \* "animate"); i: the index animate last got, -1
                        \* before the first frame
    angles, rocket_distances, rocket_x, rocket_y    \* Upd 124-139

series == <<t, x_earth, y_earth, x_mars, y_mars, x_transfer, y_transfer,
            distances_to_mars, intercept_idx>>

artists == <<rocket, earth, mars, line, angle_text, distance_text>>

player == <<started, frame_seq>>

post == <<angles, rocket_distances, rocket_x, rocket_y>>

vars == <<script, pc, err, series, artists, player, last_call, post>>

NoData == [x |-> <<>>, y |-> <<>>]

(* Line2D.set_data(x, y) with scalars.                                     *)
Point(x, y) == [x |-> <<x>>, y |-> <<y>>]

(* State after Sim 19-48 / Upd 20-49: constants, time grid, three series.  *)
Init ==
    /\ script \in {"Sim", "Upd"}
    /\ pc = "main"
    /\ err = ""
    /\ t = [i \in 0..N-1 |-> linspace(T_mars, N, i)]
    /\ x_earth = [i \in 0..N-1 |-> circle_x(r_earth_orbit, theta_earth(t[i]))]
    /\ y_earth = [i \in 0..N-1 |-> circle_y(r_earth_orbit, theta_earth(t[i]))]
    /\ x_mars = [i \in 0..N-1 |-> circle_x(r_mars_orbit, theta_mars(script, t[i]))]
    /\ y_mars = [i \in 0..N-1 |-> circle_y(r_mars_orbit, theta_mars(script, t[i]))]
    /\ x_transfer = [i \in 0..N-1 |->
                        transfer_x(script, a_transfer, theta_transfer(t[i]))]
    /\ y_transfer = [i \in 0..N-1 |->
                        transfer_y(a_transfer, theta_transfer(t[i]))]
    /\ distances_to_mars = <<>>
    /\ intercept_idx = -1
    /\ rocket = NoData /\ earth = NoData /\ mars = NoData /\ line = NoData
    /\ angle_text = <<>> /\ distance_text = <<>>
    /\ started = FALSE
    /\ frame_seq = 0
    /\ last_call = [fn |-> "none", i |-> -1]
    /\ angles = <<>> /\ rocket_distances = <<>>
    /\ rocket_x = 0 /\ rocket_y = 0

(* The exception, if any, raised by                                        *)
(*   np.sqrt((x_transfer + x_earth[0] - x_mars)**2                         *)
(*           + (y_transfer + y_earth[0] - y_mars)**2)                      *)
(* in evaluation order; "" when the expression has a value.                *)
DistanceError ==
    LET lx == BroadcastLen(len(x_transfer), len(x_mars))
        ly == BroadcastLen(len(y_transfer), len(y_mars))
    IN  IF len(x_earth) = 0 THEN "IndexError"
        ELSE IF ~Broadcastable(len(x_transfer), len(x_mars)) THEN "ValueError"
        ELSE IF len(y_earth) = 0 THEN "IndexError"
        ELSE IF ~Broadcastable(len(y_transfer), len(y_mars)) THEN "ValueError"
        ELSE IF ~Broadcastable(lx, ly) THEN "ValueError"
        ELSE ""

(* The value of that expression (Sim 51, Upd 52 and 129).                  *)
DistanceArray ==
    LET lx == BroadcastLen(len(x_transfer), len(x_mars))
        ly == BroadcastLen(len(y_transfer), len(y_mars))
        dx(i) == At(x_transfer, IF lx = 1 THEN 0 ELSE i) + x_earth[0]
                    - At(x_mars, IF lx = 1 THEN 0 ELSE i)
        dy(i) == At(y_transfer, IF ly = 1 THEN 0 ELSE i) + y_earth[0]
                    - At(y_mars, IF ly = 1 THEN 0 ELSE i)
    IN  [i \in 0..BroadcastLen(lx, ly) - 1 |-> ISqrt(dx(i) ^ 2 + dy(i) ^ 2)]

Raise(e) == pc' = "error" /\ err' = e

(* Sim 50-105 / Upd 51-120: the closest-approach search, the figure and    *)
(* its artists, the FuncAnimation object.                                  *)
Setup ==
    /\ pc = "main"
    /\ UNCHANGED <<script, t, x_earth, y_earth, x_mars, y_mars,
                   x_transfer, y_transfer, player, last_call, post>>
    /\ IF DistanceError # ""
       THEN /\ Raise(DistanceError)
            /\ UNCHANGED <<distances_to_mars, intercept_idx, artists>>
       ELSE /\ distances_to_mars' = DistanceArray
            /\ IF len(DistanceArray) = 0
               THEN /\ Raise("ValueError")
                    /\ UNCHANGED <<intercept_idx, artists>>
               ELSE /\ intercept_idx' = argmin(DistanceArray)
                    /\ IF len(x_mars) = 0 \/ len(y_mars) = 0
                       THEN /\ Raise("IndexError")
                            /\ UNCHANGED <<rocket, mars, line,
                                           angle_text, distance_text>>
                            /\ earth' = Point(x_earth[0], y_earth[0])
                       ELSE /\ pc' = "play"
                            /\ err' = err
                            /\ earth' = Point(x_earth[0], y_earth[0])
                            /\ mars' = Point(x_mars[0], y_mars[0])
                            /\ rocket' = IF script = "Sim"
                                         THEN [x |-> ToSeq(x_earth),
                                               y |-> ToSeq(y_earth)]
                                         ELSE Point(x_earth[0], y_earth[0])
                            /\ line' = NoData
                            /\ angle_text' = <<>>
                            /\ distance_text' = <<>>

(* Fault variant of init: the arc translated in place on every call, as    *)
(* "x_transfer += x_earth[0]" would.                                       *)
init_inplace ==
    /\ rocket' = Point(x_earth[0], y_earth[0])
    /\ earth' = Point(x_earth[0], y_earth[0])
    /\ mars' = Point(x_mars[0], y_mars[0])
    /\ line' = NoData
    /\ angle_text' = <<>>
    /\ distance_text' = <<>>
    /\ last_call' = [fn |-> "init", i |-> last_call.i]
    /\ x_transfer' = [i \in DOMAIN x_transfer |-> x_transfer[i] + x_earth[0]]
    /\ UNCHANGED <<pc, err, t, x_earth, y_earth, x_mars, y_mars, y_transfer,
                   distances_to_mars, intercept_idx>>

(* def init(): Sim 83-87, Upd 88-95.                                       *)
init ==
    /\ rocket' = Point(x_earth[0], y_earth[0])
    /\ earth' = Point(x_earth[0], y_earth[0])
    /\ mars' = Point(x_mars[0], y_mars[0])
    /\ line' = NoData
    /\ angle_text' = <<>>
    /\ distance_text' = <<>>
    /\ last_call' = [fn |-> "init", i |-> last_call.i]
    /\ UNCHANGED <<pc, err, series>>

(* Fault variants of OnArc: the intercept frame still on the arc; only the *)
(* intercept frame on the target.                                          *)
OnArc_le(i) == i <= intercept_idx

OnArc_only(i) == i # intercept_idx

(* "if i < intercept_idx:" (Sim 91, Upd 99)                                *)
OnArc(i) == i < intercept_idx

(* def animate(i): Sim 90-103, Upd 98-118.  An index outside an array      *)
(* raises IndexError at the read, after the set_data calls before it.      *)
animate(i) ==
    LET onArc    == OnArc(i)
        inArc    == i \in DOMAIN x_transfer /\ i \in DOMAIN y_transfer
        inMars   == i \in DOMAIN x_mars /\ i \in DOMAIN y_mars
        inEarth  == i \in DOMAIN x_earth /\ i \in DOMAIN y_earth
        rx       == IF onArc THEN x_transfer[i] + x_earth[0] ELSE x_mars[i]
        ry       == IF onArc THEN y_transfer[i] + y_earth[0] ELSE y_mars[i]
        dx       == rx - x_earth[i]
        dy       == ry - y_earth[i]
        angle    == ToDegrees(ArcTan2(dy, dx))
        distance == ISqrt(dx ^ 2 + dy ^ 2)
    IN  /\ last_call' = [fn |-> "animate", i |-> i]
        /\ UNCHANGED series
        /\ IF (onArc /\ ~inArc) \/ (~onArc /\ ~inMars)
           THEN Raise("IndexError") /\ UNCHANGED artists
           ELSE /\ rocket' = Point(rx, ry)
                /\ IF ~inEarth
                   THEN /\ Raise("IndexError")
                        /\ UNCHANGED <<earth, mars, line,
                                       angle_text, distance_text>>
                   ELSE /\ earth' = Point(x_earth[i], y_earth[i])
                        /\ IF ~inMars
                           THEN /\ Raise("IndexError")
                                /\ UNCHANGED <<mars, line,
                                               angle_text, distance_text>>
                           ELSE /\ UNCHANGED <<pc, err>>
                                /\ mars' = Point(x_mars[i], y_mars[i])
                                /\ IF script = "Sim"
                                   THEN UNCHANGED <<line, angle_text,
                                                    distance_text>>
                                   ELSE /\ line' = [x |-> <<x_earth[i], rx>>,
                                                    y |-> <<y_earth[i], ry>>]
                                        /\ angle_text' = <<Format2f(angle)>>
                                        /\ distance_text' = Format2e(distance)

----------------------------------------------------------------------------
(* Playback: FuncAnimation(fig, animate, init_func=init, frames=len(t),    *)
(* interval=20, blit=True), repeat left at its default True, driven by     *)
(* plt.show() (Sim 105-107, Upd 120-122).                                  *)

(* Fault variant of frames: one frame more than there are samples.         *)
frames_plus == len(t) + 1

frames == len(t)

(* The window is closed only when the frame iterator stands at a multiple  *)
(* of CloseEvery.                                                          *)
CloseEvery == 100

(* First draw: _start() runs init_func and starts the timer.               *)
Start ==
    /\ pc = "play" /\ ~started
    /\ init
    /\ started' = TRUE
    /\ UNCHANGED <<script, frame_seq, post>>

(* A resize of a blitting animation runs init_func again.                  *)
Resize ==
    /\ pc = "play" /\ started
    /\ init
    /\ UNCHANGED <<script, player, post>>

(* A timer tick while the iterator has a frame: animate(next(frame_seq)).  *)
Step ==
    /\ pc = "play" /\ started
    /\ frame_seq < frames
    /\ animate(frame_seq)
    /\ frame_seq' = frame_seq + 1
    /\ UNCHANGED <<script, started, post>>

(* A timer tick on the exhausted iterator: repeat is True, so init_func    *)
(* runs and the iterator starts over.                                      *)
Restart ==
    /\ pc = "play" /\ started
    /\ frame_seq >= frames
    /\ init
    /\ frame_seq' = 0
    /\ UNCHANGED <<script, started, post>>

(* The user closes the window: plt.show() returns.  Sim ends there.        *)
Close ==
    /\ pc = "play"
    /\ frame_seq % CloseEvery = 0
    /\ pc' = IF script = "Upd" THEN "post" ELSE "done"
    /\ UNCHANGED <<script, err, series, artists, player, last_call, post>>

(* Upd 125: np.arctan2(y_transfer + y_earth[0] - y_earth,                  *)
(*                     x_transfer + x_earth[0] - x_earth) * (180 / np.pi)  *)
AngleArray ==
    [i \in 0..BroadcastLen(len(x_transfer), len(x_earth)) - 1 |->
        ToDegrees(ArcTan2(At(y_transfer, i) + y_earth[0] - At(y_earth, i),
                          At(x_transfer, i) + x_earth[0] - At(x_earth, i)))]

(* Upd 129-134: the rocket position of iteration i, k being the value of  *)
(* np.argmin(np.sqrt(...)) in the loop condition.                          *)
LoopRocket(i, k) ==
    IF i < k
    THEN <<x_transfer[i] + x_earth[0], y_transfer[i] + y_earth[0]>>
    ELSE <<x_mars[i], y_mars[i]>>

(* Iteration i reads inside every array it indexes.                        *)
LoopReadsOk(i, k) ==
    /\ IF i < k THEN i \in DOMAIN x_transfer /\ i \in DOMAIN y_transfer
                ELSE i \in DOMAIN x_mars /\ i \in DOMAIN y_mars
    /\ i \in DOMAIN x_earth /\ i \in DOMAIN y_earth

(* Upd 124-139, run to the end once plt.show() has returned: the angle     *)
(* series, then the rocket_distances loop over range(len(t)).  The loop    *)
(* condition has the same value k at every iteration, nothing in the loop  *)
(* assigning the arrays it reads.  An iteration that indexes outside an    *)
(* array raises IndexError and ends the loop there.                        *)
PostShow ==
    /\ pc = "post"
    /\ UNCHANGED <<script, series, artists, player, last_call>>
    /\ IF ~Broadcastable(len(x_transfer), len(x_earth))
          \/ ~Broadcastable(len(y_transfer), len(y_earth))
       THEN Raise("ValueError") /\ UNCHANGED post
       ELSE /\ angles' = AngleArray
            /\ \E k \in {argmin(DistanceArray)} :
               \E stop \in {i \in 0..len(t) :
                               /\ \A j \in 0..i - 1 : LoopReadsOk(j, k)
                               /\ i < len(t) => ~LoopReadsOk(i, k)} :
                  /\ rocket_distances' =
                        [i \in 0..stop - 1 |->
                            ISqrt((LoopRocket(i, k)[1] - x_earth[i]) ^ 2
                                  + (LoopRocket(i, k)[2] - y_earth[i]) ^ 2)]
                  /\ IF stop = 0
                     THEN UNCHANGED <<rocket_x, rocket_y>>
                     ELSE /\ rocket_x' = LoopRocket(stop - 1, k)[1]
                          /\ rocket_y' = LoopRocket(stop - 1, k)[2]
                  /\ IF stop = len(t)
                     THEN pc' = "done" /\ err' = err
                     ELSE Raise("IndexError")

Next == Setup \/ Start \/ Resize \/ Step \/ Restart \/ Close \/ PostShow

Spec == Init /\ [][Next]_vars

----------------------------------------------------------------------------
(* The callbacks and the search on arbitrary small series: the search and  *)
(* the frame functions as functions of their inputs.                       *)

MaxLen == 3

XCoords == {0, 3}

YCoords == {0, 4}

(* Series as the scripts could hold them before the search: a time grid    *)
(* and an inner-body track of one length, a transfer arc and an outer-body *)
(* track of lengths of their own, the arc along the x axis.                *)
InitSeries ==
    /\ script \in {"Sim", "Upd"}
    /\ pc = "main"
    /\ err = ""
    /\ \E n \in 0..MaxLen :
          /\ t = [i \in 0..n-1 |-> i]
          /\ x_earth = [i \in 0..n-1 |-> i + 3]
          /\ y_earth = [i \in 0..n-1 |-> i]
    /\ \E n \in 0..MaxLen :
          /\ x_transfer \in [0..n-1 -> XCoords]
          /\ y_transfer = [i \in 0..n-1 |-> 0]
    /\ \E n \in 0..MaxLen :
          /\ x_mars \in [0..n-1 -> XCoords]
          /\ y_mars \in [0..n-1 -> YCoords]
    /\ distances_to_mars = <<>>
    /\ intercept_idx = -1
    /\ rocket = NoData /\ earth = NoData /\ mars = NoData /\ line = NoData
    /\ angle_text = <<>> /\ distance_text = <<>>
    /\ started = FALSE
    /\ frame_seq = 0
    /\ last_call = [fn |-> "none", i |-> -1]
    /\ angles = <<>> /\ rocket_distances = <<>>
    /\ rocket_x = 0 /\ rocket_y = 0

(* init() and animate(i) called directly, in any order, with any index of  *)
(* range(len(t)).                                                          *)
CallInit ==
    /\ pc = "play"
    /\ init
    /\ UNCHANGED <<script, player, post>>

CallAnimate(i) ==
    /\ pc = "play"
    /\ animate(i)
    /\ UNCHANGED <<script, player, post>>

NextCalls == Setup \/ CallInit \/ \E i \in 0..len(t) - 1 : CallAnimate(i)

SpecSeries == InitSeries /\ [][NextCalls]_vars

----------------------------------------------------------------------------
(* Properties.                                                             *)

(* The composed trajectory at sample i: the translated arc before the      *)
(* intercept, the outer body from the intercept on.                        *)
Composed(i) ==
    IF i < intercept_idx
    THEN <<x_transfer[i] + x_earth[0], y_transfer[i] + y_earth[0]>>
    ELSE <<x_mars[i], y_mars[i]>>

(* Bearing and separation of the composed trajectory from the inner body.  *)
Bearing(i) ==
    ToDegrees(ArcTan2(Composed(i)[2] - y_earth[i], Composed(i)[1] - x_earth[i]))

Separation(i) ==
    ISqrt((Composed(i)[1] - x_earth[i]) ^ 2 + (Composed(i)[2] - y_earth[i]) ^ 2)

(* C1: the rocket position of frame i is the composed trajectory at i, in  *)
(* animate(i) of both scripts and in every iteration of the distance loop  *)
(* that follows the animation.                                             *)
C1_FramesFollowComposed ==
    /\ (last_call.fn = "animate" /\ pc # "error") =>
          rocket = Point(Composed(last_call.i)[1], Composed(last_call.i)[2])
    /\ (pc = "done" /\ script = "Upd") =>
          /\ DOMAIN rocket_distances = 0..N-1
          /\ \A i \in 0..N-1 : rocket_distances[i] = Separation(i)
          /\ rocket_x = Composed(N - 1)[1]
          /\ rocket_y = Composed(N - 1)[2]

C1_PastInterceptAndLoopDone ==
    /\ pc = "done" /\ script = "Upd"
    /\ last_call.fn = "animate"
    /\ last_call.i > intercept_idx
    /\ intercept_idx > 1
    /\ rocket = Point(x_mars[last_call.i], y_mars[last_call.i])
    /\ len(rocket_distances) = N

(* The displacement the search measures at sample j.                       *)
GapX(j) == At(x_transfer, j) + x_earth[0] - At(x_mars, j)

GapY(j) == At(y_transfer, j) + y_earth[0] - At(y_mars, j)

(* C2: the intercept index is the first index of the global minimum of the *)
(* Euclidean distance between translated arc and outer body; two identical *)
(* sequences give index 0.                                                 *)
C2_FirstGlobalMinimum ==
    pc = "play" =>
        /\ intercept_idx \in DOMAIN distances_to_mars
        /\ \A j \in DOMAIN distances_to_mars :
              /\ distances_to_mars[j] ^ 2 <= GapX(j) ^ 2 + GapY(j) ^ 2
              /\ GapX(j) ^ 2 + GapY(j) ^ 2 < (distances_to_mars[j] + 1) ^ 2
              /\ distances_to_mars[intercept_idx] <= distances_to_mars[j]
              /\ j < intercept_idx =>
                    distances_to_mars[intercept_idx] < distances_to_mars[j]
        /\ (\A j \in DOMAIN distances_to_mars : GapX(j) = 0 /\ GapY(j) = 0)
              => intercept_idx = 0

C2_TieAfterLargerFirst ==
    /\ pc = "play"
    /\ DOMAIN distances_to_mars = 0..2
    /\ distances_to_mars[1] = distances_to_mars[2]
    /\ distances_to_mars[1] < distances_to_mars[0]
    /\ intercept_idx = 1

C4_InteriorNearIntercept ==
    pc # "main" =>
        /\ pc # "error"
        /\ 0 < intercept_idx /\ intercept_idx < N - 1
        /\ distances_to_mars[intercept_idx] < 10 ^ 2

C4_SearchDone ==
    /\ pc = "play" /\ ~started
    /\ intercept_idx \in 1..N-2
    /\ distances_to_mars[intercept_idx] < 10 ^ 2

(* C5: the bearing reported for sample i is that of the composed           *)
(* trajectory from the inner body, in the per-frame read-out and in        *)
(* element i of the angle series alike.                                    *)
C5_BearingOfComposed ==
    /\ (script = "Upd" /\ last_call.fn = "animate" /\ pc # "error") =>
          angle_text = <<Format2f(Bearing(last_call.i))>>
    /\ (script = "Upd" /\ pc = "done") =>
          \A i \in 0..N-1 : angles[i] = Bearing(i)

(* C6: in both scripts the outer body's angle at sample t is               *)
(* 2 pi t / T_mars plus the 44.75 degree phase converted to radians.       *)
C6_PhaseInRadians ==
    \A i \in DOMAIN t :
        LET theta == MulDiv(TwoPiMicro, t[i], T_mars) + deg2rad(PhaseAngle)
        IN  /\ x_mars[i] = circle_x(r_mars_orbit, theta)
            /\ y_mars[i] = circle_y(r_mars_orbit, theta)

(* Orbit radii of the four inner planets, 10^7 m.                          *)
Radii == {5790, 10820, 14960, 22790}

(* C7: the transfer arc at sample 0 is (0, 0) whatever the two radii, so   *)
(* with the intercept after frame 0 the rocket of frame 0 sits on the      *)
(* inner body's initial position, where init() puts it.                    *)
C7_ArcStartsAtOrigin ==
    /\ x_transfer[0] = 0 /\ y_transfer[0] = 0
    /\ \A r1 \in Radii : \A r2 \in Radii :
          LET a      == (r1 + r2) \div 2
              theta0 == MulDiv(t[0], Micro, SqrtR3OverGM(a))
          IN  transfer_x(script, a, theta0) = 0 /\ transfer_y(a, theta0) = 0
    /\ (last_call.fn = "animate" /\ last_call.i = 0 /\ intercept_idx > 0) =>
          rocket = Point(x_earth[0], y_earth[0])
    /\ last_call.fn = "init" => rocket = Point(x_earth[0], y_earth[0])

C7_FrameZeroDrawn ==
    /\ last_call.fn = "animate" /\ last_call.i = 0
    /\ intercept_idx > 0
    /\ frame_seq = 1
    /\ rocket = Point(x_earth[0], y_earth[0])

(* A frame is delivered in this step.                                      *)
FrameDelivered == frame_seq' = frame_seq + 1 /\ last_call'.fn = "animate"

OnTarget(i) == rocket' = Point(x_mars[i], y_mars[i])

(* C8: once a delivered frame had an index >= intercept_idx, every frame   *)
(* delivered later puts the rocket on the outer body.                      *)
C8_NeverBackOnArc ==
    [][(FrameDelivered /\ last_call.i >= 0 /\ last_call.i >= intercept_idx)
          => OnTarget(last_call'.i)]_vars

(* C8, per pass: the frames of one pass come in increasing order, and a    *)
(* frame after one with index >= intercept_idx puts the rocket on the      *)
(* outer body; the frame delivered after frame N-1 is frame 0 of the next  *)
(* pass, which puts the rocket back on the inner body's initial position.  *)
C8_LockedWithinPass ==
    [][FrameDelivered =>
          /\ last_call'.i = IF last_call.i = N - 1 THEN 0 ELSE last_call.i + 1
          /\ (last_call.i >= 0 /\ last_call.i >= intercept_idx
                /\ last_call'.i > last_call.i) => OnTarget(last_call'.i)
          /\ last_call.i = N - 1 => rocket' = Point(x_earth[0], y_earth[0])]_vars

C8_LastFrameOnTarget ==
    /\ pc = "play"
    /\ last_call.fn = "animate" /\ last_call.i = N - 1
    /\ intercept_idx < N - 1
    /\ rocket = Point(x_mars[N - 1], y_mars[N - 1])

(* C9: calls of init() and animate(i) in any order leave the time grid,    *)
(* the position series and intercept_idx as they were, and what animate(i) *)
(* shows is a function of i and of them alone.                             *)
C9_CallbacksKeepSeries ==
    [][pc = "play" =>
          /\ series' = series
          /\ (pc' = "play" /\ last_call'.fn = "animate") =>
                /\ rocket' = Point(Composed(last_call'.i)[1],
                                   Composed(last_call'.i)[2])
                /\ script = "Upd" =>
                      /\ angle_text' = <<Format2f(Bearing(last_call'.i))>>
                      /\ distance_text' = Format2e(Separation(last_call'.i))]_vars

C9_AnimateAfterOtherCalls ==
    /\ pc = "play" /\ script = "Upd"
    /\ last_call.fn = "animate" /\ last_call.i = 2
    /\ intercept_idx = 1
    /\ angle_text = <<Format2f(Bearing(2))>>

(* C10: every series has as many elements as the time grid, N, and every   *)
(* index the playback and the distance loop use lies in 0..N-1: no read    *)
(* falls outside a series.                                                 *)
C10_IndicesInRange ==
    /\ len(t) = N
    /\ \A a \in {x_earth, y_earth, x_mars, y_mars, x_transfer, y_transfer} :
          DOMAIN a = 0..N-1
    /\ pc # "main" => DOMAIN distances_to_mars = 0..N-1
    /\ frame_seq \in 0..N
    /\ last_call.i \in -1..N-1
    /\ pc # "error"
    /\ (pc = "done" /\ script = "Upd") =>
          DOMAIN angles = 0..N-1 /\ DOMAIN rocket_distances = 0..N-1

C10_AllFramesAndLoopRun ==
    /\ pc = "done" /\ script = "Upd"
    /\ last_call.i = N - 1
    /\ frame_seq = N
    /\ len(rocket_distances) = N

=============================================================================
